---- MODULE Spec2Model ----
(***************************************************************************)
(* The local voting state of the community-voice page (src/app.js): the    *)
(* browser's localStorage keys, the closures each page instance keeps in   *)
(* memory (setupVoting's `votes`, initPickGrid's `saved`) and the DOM the  *)
(* handlers write to.  One action per event handler.                       *)
(*                                                                         *)
(* Abstractions: titles are a fixed function of the id and are left out;   *)
(* ISO timestamps are left out of the stored records; localStorage holds   *)
(* the parsed value of each key together with a status (absent, unparsable *)
(* text, parsable text).                                                   *)
(***************************************************************************)
EXTENDS Integers, FiniteSets, Sequences, TLC

\* ---------------------------------------------------------------- bounds
\* The polls (.card[data-poll-id]) and the option buttons of each, the tiles
\* (.tile[data-item-id]) and the values of the about-you form.
Polls == {"p1", "p2"}
\* The card of a page with a single poll of three options.
WidePolls == {"p3"}
OptionsOf(p) ==
  IF p = "p1" THEN {"A", "B"} ELSE IF p = "p3" THEN {"A", "B", "C"} ELSE {"A"}
Items == {"x1", "x2"}
Profiles == {"north"}
\* Raw text typed into the RSVP name field, as sequences of characters.
RawNames == {<<>>, <<" ">>, <<" ", "a", " ">>}
\* Raw text typed into the RSVP email field.
RawEmails == {<<>>, <<"e", " ">>}
\* The data-count-to values and the suffixes of a .stat-number element, and
\* the milliseconds from one animation frame to the next.
Targets == {0, 500, 2500, 10000}
Suffixes == {"", "%"}
FrameGaps == {100, 300, 500}
\* Text typed into #pick-search, the data-filter keys of the filter buttons
\* and, per tile, its data-tags list and the texts applyFilters searches.
SearchTexts == {<<>>, <<" ">>, <<"X", "2">>, <<"a">>, <<"X">>}
FilterKeys == {"all", "arts", "parks"}
TagsOf(i) == IF i = "x1" THEN {"arts"} ELSE {"parks"}
TextsOf(i) ==
  IF i = "x1" THEN {<<"a", "r", "t", "s">>, <<"x", "1">>}
  ELSE {<<"p", "a", "r", "k", "s">>, <<"x", "2">>}
\* Cap on a poll's in-memory total (it is unbounded in the code).
MaxVotes == 2
\* Largest total of the counts a page finds stored when it is opened.
MaxStored == 3
\* Cap on the clipboard writes and label timers a page has in flight, and on
\* the SVG downloads it has triggered (all unbounded in the code).
MaxInFlight == 2
MaxDownloads == 3

\* ------------------------------------------------------------- constants
Absent == "absent"      \* localStorage.getItem(key) === null
Corrupt == "corrupt"    \* the stored text does not parse as JSON
Ok == "ok"
NoVote == "none"        \* getUserVote's fallback, null
NoProfile == "none"     \* voterProfile: {}

VARIABLES
  tabs,   \* the page instances open on this browser profile
  ls,     \* localStorage, shared by the page instances
  mem,    \* per page instance: the closures votes and saved
  ui,     \* per page instance: the DOM state the handlers write
  last    \* the last handler that ran, its inputs and what it handed out

vars == <<tabs, ls, mem, ui, last>>

\* ---------------------------------------------------------------- helpers
EmptyMap == [k \in {} |-> 0]
Put(m, k, v) == [x \in (DOMAIN m) \cup {k} |-> IF x = k THEN v ELSE m[x]]
Lookup(m, k, dflt) == IF k \in DOMAIN m THEN m[k] ELSE dflt
CountOf(m, v) == Cardinality({k \in DOMAIN m : m[k] = v})
RECURSIVE SumOver(_, _)
SumOver(m, S) ==
  IF S = {} THEN 0
  ELSE LET k == CHOOSE x \in S : TRUE IN m[k] + SumOver(m, S \ {k})
SumValues(m) == SumOver(m, DOMAIN m)
Max(a, b) == IF a >= b THEN a ELSE b
Min(a, b) == IF a <= b THEN a ELSE b

\* A localStorage key: its status and, when it parses, its value.
Stored(v) == [st |-> Ok, v |-> v]
Removed(dflt) == [st |-> Absent, v |-> dflt]

\* storage.get(key, fallback): JSON.parse(getItem(key)) ?? fallback, and the
\* fallback when parsing throws.
storage_get(item, fallback) == IF item.st = Ok THEN item.v ELSE fallback

\* safeParse(getItem(key)) || dflt
safeParse(item, dflt) == IF item.st = Ok THEN item.v ELSE dflt

\* getVotingData's defaultData
defaultData ==
  [voterProfile |-> NoProfile,
   programVotes |-> EmptyMap,
   pollVotes |-> EmptyMap,
   summary |-> [totalVotes |-> 0, programsSupported |-> 0,
                programsOpposed |-> 0, pollsCompleted |-> 0]]

getVotingData(store) == safeParse(store.data, defaultData)

\* Mutant of saveVotingData: totalVotes leaves the poll votes out.
saveVotingData_picksOnly(store, data) ==
  [store EXCEPT !.data = Stored(
     [data EXCEPT !.summary =
        [totalVotes |-> Cardinality(DOMAIN data.programVotes),
         programsSupported |-> CountOf(data.programVotes, "yes"),
         programsOpposed |-> CountOf(data.programVotes, "no"),
         pollsCompleted |-> Cardinality(DOMAIN data.pollVotes)]])]

\* saveVotingData: recompute the summary, then setItem('communityVotingData').
saveVotingData(store, data) ==
  [store EXCEPT !.data = Stored(
     [data EXCEPT !.summary =
        [totalVotes |-> Cardinality(DOMAIN data.programVotes)
                          + Cardinality(DOMAIN data.pollVotes),
         programsSupported |-> CountOf(data.programVotes, "yes"),
         programsOpposed |-> CountOf(data.programVotes, "no"),
         pollsCompleted |-> Cardinality(DOMAIN data.pollVotes)]])]

addProgramVote(store, programId, vote) ==
  LET data == getVotingData(store)
  IN saveVotingData(store,
       [data EXCEPT !.programVotes = Put(data.programVotes, programId, vote)])

addPollVote(store, pollId, selectedOption) ==
  LET data == getVotingData(store)
  IN saveVotingData(store,
       [data EXCEPT !.pollVotes = Put(data.pollVotes, pollId, selectedOption)])

updateVoterProfile(store, profile) ==
  LET data == getVotingData(store)
  IN saveVotingData(store, [data EXCEPT !.voterProfile = profile])

\* updateVoteCount: the number written into #votesCount.
updateVoteCount(store) ==
  LET votingData == getVotingData(store)
  IN Cardinality(DOMAIN votingData.programVotes)
       + Cardinality(DOMAIN votingData.pollVotes)

\* setupVoting's closures over `votes`.
getPollCounts(votes, pollId) ==
  Lookup(votes, pollId, [total |-> 0, options |-> EmptyMap])

\* Mutant of getUserVote: the stored text is taken as the choice whenever
\* the key is present, parsable or not.
getUserVote_rawText(store, pollId) ==
  IF store.poll[pollId] = Absent THEN NoVote ELSE store.poll[pollId]

getUserVote(store, pollId) ==
  IF store.poll[pollId] \in {Absent, Corrupt} THEN NoVote ELSE store.poll[pollId]

\* Mutant of alreadyVoted: the guard dropped.
alreadyVoted_dropped(store, pollId) == FALSE

\* The handler's guard: if (getUserVote(pollId)) return;
alreadyVoted(store, pollId) == getUserVote(store, pollId) # NoVote

\* Mutant of castVote: the option count is incremented, the total is not.
castVote_noTotal(poll, chosen) ==
  [total |-> poll.total,
   options |-> Put(poll.options, chosen, Lookup(poll.options, chosen, 0) + 1)]

\* poll.total += 1; poll.options[chosen] = (poll.options[chosen] || 0) + 1
castVote(poll, chosen) ==
  [total |-> poll.total + 1,
   options |-> Put(poll.options, chosen, Lookup(poll.options, chosen, 0) + 1)]

\* Mutant of Pct: the division guarded by total + 1 instead of max(1, total).
Pct_plusOne(count, total) ==
  LET t == total + 1 IN (200 * count + t) \div (2 * t)

\* Mutant of Pct: the division without Math.max; 0 / 0 is NaN, shown as -1.
Pct_noMax(count, total) ==
  IF total = 0 THEN -1 ELSE (200 * count + total) \div (2 * total)

\* Math.round((count / Math.max(1, total)) * 100), on non-negative integers.
Pct(count, total) ==
  LET t == Max(1, total) IN (200 * count + t) \div (2 * t)

\* renderResults: the percentage written into every bar of the card.
renderResults(votes, pollId) ==
  LET poll == getPollCounts(votes, pollId)
  IN [o \in OptionsOf(pollId) |-> Pct(Lookup(poll.options, o, 0), poll.total)]

\* Mutant of updatePickSummary: the negative count without its filter.
updatePickSummary_noFilter(map) ==
  [yes |-> CountOf(map, "yes"), no |-> Cardinality(DOMAIN map),
   total |-> Cardinality(DOMAIN map),
   submitDisabled |-> (Cardinality(DOMAIN map) = 0)]

\* updatePickSummary: the counts in #pick-summary and #submitPicks.disabled.
updatePickSummary(map) ==
  [yes |-> CountOf(map, "yes"), no |-> CountOf(map, "no"),
   total |-> Cardinality(DOMAIN map),
   submitDisabled |-> (Cardinality(DOMAIN map) = 0)]

\* Mutant of setSaved: a label already stored for the item is kept.
setSaved_firstWins(saved, id, pick) ==
  IF id \in DOMAIN saved THEN saved ELSE Put(saved, id, pick)

\* saved[id] = pick
setSaved(saved, id, pick) == Put(saved, id, pick)

\* applyTileState: the selection class of a tile.
applyTileState(pick) ==
  IF pick = "yes" THEN "selected-yes"
  ELSE IF pick = "no" THEN "selected-no" ELSE ""

\* What a handler hands out: the alert it raised and the file it produced.
NoFile == [st |-> Absent, v |-> defaultData]
Ran(op, t, id, choice, ok, file, alert) ==
  [op |-> op, tab |-> t, id |-> id, choice |-> choice, ok |-> ok,
   file |-> file, alert |-> alert]

\* String.prototype.trim on a sequence of characters.
RECURSIVE TrimLeft(_)
TrimLeft(s) == IF s # <<>> /\ Head(s) = " " THEN TrimLeft(Tail(s)) ELSE s
RECURSIVE TrimRight(_)
TrimRight(s) ==
  IF s # <<>> /\ s[Len(s)] = " " THEN TrimRight(SubSeq(s, 1, Len(s) - 1)) ELSE s
\* Mutant of Trim: only the leading blanks are removed.
Trim_leftOnly(s) == TrimLeft(s)

Trim(s) == TrimRight(TrimLeft(s))

\* --------------------------------------------------------------- filters
\* String.prototype.toLowerCase and includes, on sequences of characters.
ToLowerCase(s) == [k \in 1..Len(s) |-> IF s[k] = "X" THEN "x" ELSE s[k]]
Includes(s, q) ==
  \E k \in 0..(Len(s) - Len(q)) : SubSeq(s, k + 1, k + Len(q)) = q

\* applyFilters: the tiles left displayed for a filter key and a query.
applyFilters(activeKey, query) ==
  LET q == Trim(query)
  IN {i \in Items :
        /\ activeKey = "all" \/ activeKey \in TagsOf(i)
        /\ q = <<>> \/ \E s \in TextsOf(i) : Includes(s, q)}

\* Mutant of clearTimeout: the pending timer is left scheduled.
clearTimeout_none(timers, handle) == timers

\* clearTimeout(t): the timer t names, the one scheduled last, is dropped
\* when it is still pending.
clearTimeout(timers, handle) ==
  IF handle /\ timers # <<>> THEN SubSeq(timers, 1, Len(timers) - 1)
  ELSE timers

\* -------------------------------------------------------------- counters
\* Mutant of clamp: the upper limit is not applied.
clamp_noUpper(n, min, max) == Max(min, n)

clamp(n, min, max) == Max(min, Min(max, n))

\* clamp(600 + target * 0.2, 700, 1600), in milliseconds.
duration(target) == clamp(600 + target \div 5, 700, 1600)

\* Math.floor(target * (1 - Math.pow(1 - k, 3))) for k = clamp(e / d, 0, 1),
\* with e and d whole multiples of 100 ms.
easeOut(target, e, d) ==
  LET D == d \div 100
      E == clamp(e, 0, d) \div 100
  IN (target * (D ^ 3 - (D - E) ^ 3)) \div (D ^ 3)

\* A .stat-number element as setupCounters finds it: observed, showing the
\* authored text, no animation started.
CounterIdle(target, suffix) ==
  [target |-> target, suffix |-> suffix, observed |-> TRUE, runs |-> 0,
   frames |-> 0, elapsed |-> 0, duration |-> 0,
   text |-> [val |-> 0, suffix |-> suffix]]

\* ------------------------------------------------------------------ load
\* Mutant of InitCard: a recorded vote is shown but the options stay enabled.
InitCard_noLock(store, votes, pollId) ==
  LET userVote == getUserVote(store, pollId)
  IN IF userVote # NoVote
     THEN [disabled |-> FALSE,
           selected |-> {userVote} \cap OptionsOf(pollId),
           note |-> userVote,
           hidden |-> FALSE,
           bars |-> renderResults(votes, pollId)]
     ELSE [disabled |-> FALSE, selected |-> {}, note |-> "",
           hidden |-> TRUE, bars |-> [o \in OptionsOf(pollId) |-> 0]]

\* The card as the DOMContentLoaded pass of setupVoting leaves it, starting
\* from the authored markup (buttons enabled, bars at 0%).
InitCard(store, votes, pollId) ==
  LET userVote == getUserVote(store, pollId)
  IN IF userVote # NoVote
     THEN [disabled |-> TRUE,
           selected |-> {userVote} \cap OptionsOf(pollId),
           note |-> userVote,
           hidden |-> FALSE,
           bars |-> renderResults(votes, pollId)]
     ELSE [disabled |-> FALSE, selected |-> {}, note |-> "",
           hidden |-> TRUE, bars |-> [o \in OptionsOf(pollId) |-> 0]]

LoadMem(store) ==
  [votes |-> storage_get(store.votes, EmptyMap),
   saved |-> safeParse(store.picks, EmptyMap)]

\* The DOM after the DOMContentLoaded pass of a page whose cards are `cards`.
LoadPage(store, cards) ==
  LET m == LoadMem(store)
  IN [cards |-> [p \in cards |-> InitCard(store, m.votes, p)],
      tiles |-> [i \in Items |-> applyTileState(Lookup(m.saved, i, ""))],
      summary |-> updatePickSummary(m.saved),
      votesCount |-> updateVoteCount(store),
      modalHidden |-> TRUE,
      form |-> [name |-> <<>>, email |-> <<>>],
      focus |-> "",
      focusTimer |-> FALSE,
      counter |-> CounterIdle(0, ""),
      filter |-> [activeKey |-> "all", query |-> <<>>, value |-> <<>>,
                  timers |-> <<>>, handle |-> FALSE,
                  shown |-> applyFilters("all", <<>>)],
      svg |-> [pending |-> [i \in Items |-> 0],
               label |-> [i \in Items |-> "Copy SVG"],
               timers |-> [i \in Items |-> 0],
               downloads |-> 0,
               lastFile |-> ""]]

LoadUI(store) == LoadPage(store, Polls)

\* The fields of an RSVP record that is not there (rsvpData.nextMeeting).
NoRSVP == [name |-> <<>>, email |-> <<>>]

EmptyStorage ==
  [votes |-> Removed(EmptyMap),
   poll |-> [p \in Polls |-> Absent],
   picks |-> Removed(EmptyMap),
   data |-> Removed(defaultData),
   about |-> Absent,
   rsvp |-> Removed(NoRSVP)]

InitWith(T) ==
  /\ tabs = T
  /\ ls = EmptyStorage
  /\ mem = [t \in T |-> LoadMem(EmptyStorage)]
  /\ ui = [t \in T |-> LoadUI(EmptyStorage)]
  /\ last = Ran("load", CHOOSE t \in T : TRUE, "", "", TRUE, NoFile, "")

Init == InitWith({"t1"})

\* Each handler is written over the storage it finds (store) and the storage
\* it leaves (store2); the page's action runs it on ls and ls'.

\* window DOMContentLoaded: a page (re)load of tab t.
LoadOn(store, store2, t) ==
  /\ mem' = [mem EXCEPT ![t] = LoadMem(store)]
  /\ ui' = [ui EXCEPT ![t] = LoadPage(store, DOMAIN ui[t].cards)]
  /\ last' = Ran("load", t, "", "", TRUE, NoFile, "")
  /\ store2 = store
  /\ UNCHANGED tabs

Load(t) == LoadOn(ls, ls', t)

\* ---------------------------------------------------------------- voting
\* The click handler of an .option button of card pollId (app.js 148-170).
OptionClickOn(store, store2, t, pollId, chosen) ==
  IF alreadyVoted(store, pollId)
  THEN /\ last' = Ran("vote", t, pollId, chosen, FALSE, NoFile, "")
       /\ store2 = store
       /\ UNCHANGED <<tabs, mem, ui>>
  ELSE LET old == getPollCounts(mem[t].votes, pollId)
           poll == castVote(old, chosen)
           votes == Put(mem[t].votes, pollId, poll)
           ls1 == [store EXCEPT !.votes = Stored(votes), !.poll[pollId] = chosen]
           ls2 == addPollVote(ls1, pollId, chosen)
       IN /\ old.total < MaxVotes
          /\ mem' = [mem EXCEPT ![t].votes = votes]
          /\ store2 = ls2
          /\ ui' = [ui EXCEPT
                      ![t].cards[pollId] =
                         [disabled |-> TRUE,
                          selected |-> @.selected \cup {chosen},
                          note |-> chosen,
                          hidden |-> FALSE,
                          bars |-> renderResults(votes, pollId)],
                      ![t].votesCount = updateVoteCount(ls2)]
          /\ last' = Ran("vote", t, pollId, chosen, TRUE, NoFile, "")
          /\ UNCHANGED tabs

OptionClick(t, pollId, chosen) == OptionClickOn(ls, ls', t, pollId, chosen)

\* The click handler of the .show-results button of a card (app.js 175-178).
ToggleResultsOn(store, store2, t, pollId) ==
  /\ ui' = [ui EXCEPT ![t].cards[pollId] =
              IF @.hidden
              THEN [@ EXCEPT !.hidden = FALSE,
                             !.bars = renderResults(mem[t].votes, pollId)]
              ELSE [@ EXCEPT !.hidden = TRUE]]
  /\ last' = Ran("toggle", t, pollId, "", TRUE, NoFile, "")
  /\ store2 = store
  /\ UNCHANGED <<tabs, mem>>

ToggleResults(t, pollId) == ToggleResultsOn(ls, ls', t, pollId)

\* ------------------------------------------------------------- pick grid
\* The grid click handler for a .tile-action button (app.js 207-227).
TileActionOn(store, store2, t, id, pick) ==
  LET saved == setSaved(mem[t].saved, id, pick)
      ls1 == [store EXCEPT !.picks = Stored(saved)]
      ls2 == addProgramVote(ls1, id, pick)
  IN /\ mem' = [mem EXCEPT ![t].saved = saved]
     /\ store2 = ls2
     /\ ui' = [ui EXCEPT ![t].tiles[id] = applyTileState(pick),
                         ![t].summary = updatePickSummary(saved),
                         ![t].votesCount = updateVoteCount(ls2)]
     /\ last' = Ran("pick", t, id, pick, TRUE, NoFile, "")
     /\ UNCHANGED tabs

TileAction(t, id, pick) == TileActionOn(ls, ls', t, id, pick)

\* -------------------------------------------------------------- counters
\* The IntersectionObserver callback for the element (app.js 48-67).
Intersect(t, isIntersecting) ==
  LET c == ui[t].counter
  IN /\ c.observed
     /\ ui' = IF ~isIntersecting THEN ui
              ELSE [ui EXCEPT ![t].counter =
                      [c EXCEPT !.observed = FALSE,
                                !.runs = @ + 1,
                                !.elapsed = 0,
                                !.duration = duration(c.target),
                                !.frames = @ + 1]]
     /\ last' = Ran("intersect", t, "", "", isIntersecting, NoFile, "")
     /\ UNCHANGED <<tabs, ls, mem>>

\* tick(t), the animation frame callback, gap milliseconds after the frame
\* before it (app.js 60-65).
Tick(t, gap) ==
  LET c == ui[t].counter
      e == c.elapsed + gap
      val == easeOut(c.target, e, c.duration)
  IN /\ c.frames > 0
     /\ ui' = [ui EXCEPT ![t].counter =
                 IF clamp(e, 0, c.duration) < c.duration
                 THEN [c EXCEPT !.elapsed = e, !.text.val = val]
                 ELSE [c EXCEPT !.elapsed = e, !.text.val = c.target,
                                !.frames = @ - 1]]
     /\ last' = Ran("tick", t, "", "", TRUE, NoFile, "")
     /\ UNCHANGED <<tabs, ls, mem>>

\* --------------------------------------------------------------- filters
\* The input handler of #pick-search: debounced(e.target.value), that is
\* clearTimeout(t); t = setTimeout(() => fn(v), 80) (app.js 8-11, 364).
SearchInput(t, v) ==
  /\ ui' = [ui EXCEPT ![t].filter =
              [@ EXCEPT !.value = v,
                        !.timers = Append(clearTimeout(@, ui[t].filter.handle), v),
                        !.handle = TRUE]]
  /\ last' = Ran("input", t, "", "", TRUE, NoFile, "")
  /\ UNCHANGED <<tabs, ls, mem>>

\* The oldest pending timer fires and runs fn with the value it captured
\* (app.js 360-363); timers of one delay fire in the order they were set.
SearchTimer(t) ==
  LET f == ui[t].filter
      query == ToLowerCase(Head(f.timers))
  IN /\ f.timers # <<>>
     /\ ui' = [ui EXCEPT ![t].filter =
                 [f EXCEPT !.timers = Tail(f.timers),
                           !.handle = f.handle /\ Len(f.timers) > 1,
                           !.query = query,
                           !.shown = applyFilters(f.activeKey, query)]]
     /\ last' = Ran("searchTimer", t, "", "", TRUE, NoFile, "")
     /\ UNCHANGED <<tabs, ls, mem>>

\* The click handler of a .filter-btn (app.js 342-351).
FilterClick(t, key) ==
  /\ ui' = [ui EXCEPT ![t].filter =
              [@ EXCEPT !.activeKey = key,
                        !.shown = applyFilters(key, ui[t].filter.query)]]
  /\ last' = Ran("filter", t, key, "", TRUE, NoFile, "")
  /\ UNCHANGED <<tabs, ls, mem>>

\* ------------------------------------------------------------- SVG tools
\* Mutant of triggerDownload: nothing is downloaded.
triggerDownload_none(svg, name) == svg

\* triggerDownload(name + '.svg', svgString): one more file handed to the
\* browser, named after the tile.
triggerDownload(svg, name) ==
  [svg EXCEPT !.downloads = @ + 1, !.lastFile = name]

InFlight(svg) == SumValues(svg.pending) + SumValues(svg.timers)

\* The grid click handler for a .copy-svg button up to its await
\* (app.js 230-246); supported is whether navigator.clipboard exists.
\* Without it the call throws inside the try and the catch runs at once.
CopyClick(t, id, supported) ==
  /\ InFlight(ui[t].svg) < MaxInFlight
  /\ IF supported
     THEN ui' = [ui EXCEPT ![t].svg.pending[id] = @ + 1]
     ELSE /\ ui[t].svg.downloads < MaxDownloads
          /\ ui' = [ui EXCEPT ![t].svg = triggerDownload(@, id)]
  /\ last' = Ran("copy", t, id, "", supported, NoFile, "")
  /\ UNCHANGED <<tabs, ls, mem>>

\* The rest of that handler once writeText settles (app.js 246-251).
ClipboardSettle(t, id, ok) ==
  /\ ui[t].svg.pending[id] > 0
  /\ IF ok
     THEN ui' = [ui EXCEPT ![t].svg.pending[id] = @ - 1,
                           ![t].svg.label[id] = "Copied!",
                           ![t].svg.timers[id] = @ + 1]
     ELSE /\ ui[t].svg.downloads < MaxDownloads
          /\ ui' = [ui EXCEPT ![t].svg =
                      triggerDownload([@ EXCEPT !.pending[id] = @ - 1], id)]
  /\ last' = Ran("clipboard", t, id, "", ok, NoFile, "")
  /\ UNCHANGED <<tabs, ls, mem>>

\* The one-second timer that restores the button's label (app.js 248).
CopyLabelTimer(t, id) ==
  /\ ui[t].svg.timers[id] > 0
  /\ ui' = [ui EXCEPT ![t].svg.timers[id] = @ - 1,
                      ![t].svg.label[id] = "Copy SVG"]
  /\ last' = Ran("copyLabel", t, id, "", TRUE, NoFile, "")
  /\ UNCHANGED <<tabs, ls, mem>>

\* The grid click handler for a .download-svg button (app.js 253-255).
DownloadClick(t, id) ==
  /\ ui[t].svg.downloads < MaxDownloads
  /\ ui' = [ui EXCEPT ![t].svg = triggerDownload(@, id)]
  /\ last' = Ran("download", t, id, "", TRUE, NoFile, "")
  /\ UNCHANGED <<tabs, ls, mem>>

\* ----------------------------------------------------------------- reset
\* resetAllVotes: what it leaves in localStorage and in the DOM of the page
\* it runs in.  The closures votes and saved are out of its reach.
\* Mutant of resetStorage: the pick selections are left in storage.
resetStorage_keepsPicks(store) ==
  [store EXCEPT !.votes = Stored(EmptyMap),
                !.poll = [p \in DOMAIN store.poll |-> Absent],
                !.data = Removed(defaultData)]

resetStorage(store) ==
  [store EXCEPT !.votes = Stored(EmptyMap),
                !.poll = [p \in DOMAIN store.poll |-> Absent],
                !.picks = Removed(EmptyMap),
                !.data = Removed(defaultData)]

resetUI(page, store) ==
  [page EXCEPT
     !.cards = [p \in DOMAIN page.cards |->
                  [disabled |-> FALSE, selected |-> {}, note |-> "",
                   hidden |-> TRUE, bars |-> [o \in OptionsOf(p) |-> 0]]],
     !.tiles = [i \in Items |-> applyTileState("")],
     !.summary = updatePickSummary(EmptyMap),
     !.votesCount = updateVoteCount(store)]

\* Mutant of ResetClick: resetAllVotes runs whatever confirm() answers.
ResetClick_noConfirm(t, ok) ==
  /\ ls' = resetStorage(ls)
  /\ ui' = [ui EXCEPT ![t] = resetUI(@, resetStorage(ls))]
  /\ last' = Ran("reset", t, "", "", ok, NoFile, "")
  /\ UNCHANGED <<tabs, mem>>

\* The click handler of #resetVotes; ok is the answer to confirm().
ResetClickOn(store, store2, t, ok) ==
  IF ~ok
  THEN /\ last' = Ran("reset", t, "", "", FALSE, NoFile, "")
       /\ store2 = store
       /\ UNCHANGED <<tabs, mem, ui>>
  ELSE /\ store2 = resetStorage(store)
       /\ ui' = [ui EXCEPT ![t] = resetUI(@, resetStorage(store))]
       /\ last' = Ran("reset", t, "", "", TRUE, NoFile, "")
       /\ UNCHANGED <<tabs, mem>>

ResetClick(t, ok) == ResetClickOn(ls, ls', t, ok)

\* ------------------------------------------------------------- about you
\* saveData, the change handler of the about-you fields (app.js 527-537).
AboutYouChangeOn(store, store2, t, data) ==
  /\ store2 = updateVoterProfile([store EXCEPT !.about = data], data)
  /\ last' = Ran("about", t, "", data, TRUE, NoFile, "")
  /\ UNCHANGED <<tabs, mem, ui>>

AboutYouChange(t, data) == AboutYouChangeOn(ls, ls', t, data)

\* ---------------------------------------------------------------- export
\* Mutant of exportVotingData: the default document is serialized.
exportVotingData_default(store) == Stored(defaultData)

\* exportVotingData: the text of the downloaded file, here the document it
\* serializes.
exportVotingData(store) == Stored(getVotingData(store))

\* Mutant of ExportClick: the check for an empty document is left out.
ExportClick_noCheck(t) ==
  /\ last' = Ran("export", t, "", "", TRUE, exportVotingData(ls), "exported")
  /\ UNCHANGED <<tabs, ls, mem, ui>>

\* The click handler of #exportData (app.js 642-656).
ExportClickOn(store, store2, t) ==
  LET data == getVotingData(store)
  IN /\ last' = IF data.summary.totalVotes = 0
                THEN Ran("export", t, "", "", FALSE, NoFile, "nothing")
                ELSE Ran("export", t, "", "", TRUE, exportVotingData(store),
                         "exported")
     /\ store2 = store
     /\ UNCHANGED <<tabs, mem, ui>>

ExportClick(t) == ExportClickOn(ls, ls', t)

\* ------------------------------------------------------------------ RSVP
\* showRSVPForm: the fields take the stored record, the modal is shown and
\* the focus timer is started.
ShowRSVP(t) ==
  LET rsvpData == safeParse(ls.rsvp, NoRSVP)
  IN /\ ui' = [ui EXCEPT ![t].modalHidden = FALSE,
                         ![t].form = IF ls.rsvp.st = Ok
                                     THEN [name |-> rsvpData.name,
                                           email |-> rsvpData.email]
                                     ELSE @,
                         ![t].focusTimer = TRUE]
     /\ last' = Ran("rsvpShow", t, "", "", TRUE, NoFile, "")
     /\ UNCHANGED <<tabs, ls, mem>>

\* The timer of showRSVPForm: focus the name field.  Whether a field of a
\* hidden modal takes the focus is up to the stylesheet.
FocusTimer(t) ==
  /\ ui[t].focusTimer
  /\ \E f \in IF ui[t].modalHidden THEN {ui[t].focus, "rsvpName"}
              ELSE {"rsvpName"} :
       ui' = [ui EXCEPT ![t].focusTimer = FALSE, ![t].focus = f]
  /\ last' = Ran("rsvpFocus", t, "", "", TRUE, NoFile, "")
  /\ UNCHANGED <<tabs, ls, mem>>

\* The user types into a field of the shown form.
TypeName(t, raw) ==
  /\ ~ui[t].modalHidden
  /\ ui' = [ui EXCEPT ![t].form.name = raw, ![t].focus = "rsvpName"]
  /\ last' = Ran("rsvpType", t, "rsvpName", "", TRUE, NoFile, "")
  /\ UNCHANGED <<tabs, ls, mem>>

TypeEmail(t, raw) ==
  /\ ~ui[t].modalHidden
  /\ ui' = [ui EXCEPT ![t].form.email = raw, ![t].focus = "rsvpEmail"]
  /\ last' = Ran("rsvpType", t, "rsvpEmail", "", TRUE, NoFile, "")
  /\ UNCHANGED <<tabs, ls, mem>>

HideRSVP(t) ==
  /\ ui' = [ui EXCEPT ![t].modalHidden = TRUE]
  /\ last' = Ran("rsvpHide", t, "", "", TRUE, NoFile, "")
  /\ UNCHANGED <<tabs, ls, mem>>

\* The submit handler of #rsvpForm and handleRSVPSubmit; the form is inside
\* the modal, so it is submitted only while the modal is shown.
SubmitRSVP(t) ==
  LET data == [name |-> Trim(ui[t].form.name),
               email |-> Trim(ui[t].form.email)]
  IN /\ ~ui[t].modalHidden
     /\ IF data.name = <<>>
        THEN /\ ui' = [ui EXCEPT ![t].focus = "rsvpName"]
             /\ last' = Ran("rsvpSubmit", t, "", "", FALSE, NoFile, "name")
             /\ UNCHANGED <<tabs, ls, mem>>
        ELSE /\ ls' = [ls EXCEPT !.rsvp = Stored(data)]
             /\ ui' = [ui EXCEPT ![t].modalHidden = TRUE]
             /\ last' = Ran("rsvpSubmit", t, "", "", TRUE, NoFile, "thanks")
             /\ UNCHANGED <<tabs, mem>>

\* ------------------------------------------------------------------ spec
\* The handlers of the voting state: load, polls, picks, reset, about-you
\* and export.
Next ==
  \/ \E t \in tabs : Load(t)
  \/ \E t \in tabs : \E p \in Polls : \E o \in OptionsOf(p) : OptionClick(t, p, o)
  \/ \E t \in tabs : \E p \in Polls : ToggleResults(t, p)
  \/ \E t \in tabs : \E i \in Items : \E k \in {"yes", "no"} : TileAction(t, i, k)
  \/ \E t \in tabs : \E ok \in BOOLEAN : ResetClick(t, ok)
  \/ \E t \in tabs : \E d \in Profiles : AboutYouChange(t, d)
  \/ \E t \in tabs : ExportClick(t)

Spec == Init /\ [][Next]_vars

\* The same page when the reset button is never activated.
NextNoReset ==
  \/ \E t \in tabs : Load(t)
  \/ \E t \in tabs : \E p \in Polls : \E o \in OptionsOf(p) : OptionClick(t, p, o)
  \/ \E t \in tabs : \E p \in Polls : ToggleResults(t, p)
  \/ \E t \in tabs : \E i \in Items : \E k \in {"yes", "no"} : TileAction(t, i, k)
  \/ \E t \in tabs : \E d \in Profiles : AboutYouChange(t, d)
  \/ \E t \in tabs : ExportClick(t)

SpecNoReset == Init /\ [][NextNoReset]_vars

\* The RSVP modal beside picks and export.
NextRSVP ==
  \/ \E t \in tabs : Load(t)
  \/ \E t \in tabs : \E i \in Items : \E k \in {"yes", "no"} : TileAction(t, i, k)
  \/ \E t \in tabs : ExportClick(t)
  \/ \E t \in tabs : ShowRSVP(t)
  \/ \E t \in tabs : HideRSVP(t)
  \/ \E t \in tabs : FocusTimer(t)
  \/ \E t \in tabs : \E n \in RawNames : TypeName(t, n)
  \/ \E t \in tabs : \E e \in RawEmails : TypeEmail(t, e)
  \/ \E t \in tabs : SubmitRSVP(t)

SpecRSVP == Init /\ [][NextRSVP]_vars

\* The counters of a page whose .stat-number element has any of the targets
\* and suffixes.  A requested animation frame is eventually delivered.
InitCounters ==
  /\ tabs = {"t1"}
  /\ ls = EmptyStorage
  /\ mem = [t \in tabs |-> LoadMem(EmptyStorage)]
  /\ \E target \in Targets : \E suffix \in Suffixes :
       ui = [t \in tabs |->
               [LoadUI(EmptyStorage) EXCEPT !.counter = CounterIdle(target, suffix)]]
  /\ last = Ran("load", "t1", "", "", TRUE, NoFile, "")

NextCounters ==
  \/ \E t \in tabs : \E b \in BOOLEAN : Intersect(t, b)
  \/ \E t \in tabs : \E g \in FrameGaps : Tick(t, g)

SpecCounters ==
  /\ InitCounters
  /\ [][NextCounters]_vars
  /\ WF_vars(\E t \in tabs : \E g \in FrameGaps : Tick(t, g))

\* The search box and the filter buttons of the pick grid.  A pending timer
\* does fire: the browser runs a timeout that is not cleared.
NextSearch ==
  \/ \E t \in tabs : Load(t)
  \/ \E t \in tabs : \E v \in SearchTexts : SearchInput(t, v)
  \/ \E t \in tabs : SearchTimer(t)
  \/ \E t \in tabs : \E k \in FilterKeys : FilterClick(t, k)

SpecSearch ==
  /\ Init
  /\ [][NextSearch]_vars
  /\ WF_vars(\E t \in tabs : SearchTimer(t))

\* The SVG tools of the tiles beside picks and reloads.
NextSvg ==
  \/ \E t \in tabs : Load(t)
  \/ \E t \in tabs : \E i \in Items : \E k \in {"yes", "no"} : TileAction(t, i, k)
  \/ \E t \in tabs : \E i \in Items : \E s \in BOOLEAN : CopyClick(t, i, s)
  \/ \E t \in tabs : \E i \in Items : \E ok \in BOOLEAN : ClipboardSettle(t, i, ok)
  \/ \E t \in tabs : \E i \in Items : CopyLabelTimer(t, i)
  \/ \E t \in tabs : \E i \in Items : DownloadClick(t, i)

SpecSvg == Init /\ [][NextSvg]_vars

\* A page whose single card has three options, opened on the storage an
\* earlier session of that page left: nothing, or a recorded choice and the
\* counts written with it (votes and resets of a page that was not reloaded
\* leave any counts in which the chosen option has at least one vote).
StoredCounts ==
  {m \in UNION {[S -> 1..MaxStored] : S \in SUBSET OptionsOf("p3") \ {{}}} :
     SumValues(m) <= MaxStored}

LeftBy(m, o) ==
  LET empty == [EmptyStorage EXCEPT !.poll = [p \in WidePolls |-> Absent]]
      poll == [total |-> SumValues(m), options |-> m]
      ls1 == [empty EXCEPT !.votes = Stored(Put(EmptyMap, "p3", poll)),
                           !.poll["p3"] = o]
  IN addPollVote(ls1, "p3", o)

InitRender ==
  /\ tabs = {"t1"}
  /\ ls \in {[EmptyStorage EXCEPT !.poll = [p \in WidePolls |-> Absent]]}
            \cup UNION {{LeftBy(m, o) : o \in DOMAIN m} : m \in StoredCounts}
  /\ mem = [t \in tabs |-> LoadMem(ls)]
  /\ ui = [t \in tabs |-> LoadPage(ls, WidePolls)]
  /\ last = Ran("load", "t1", "", "", TRUE, NoFile, "")

NextRender ==
  \/ \E t \in tabs : Load(t)
  \/ \E t \in tabs : \E p \in DOMAIN ui[t].cards : \E o \in OptionsOf(p) :
       OptionClick(t, p, o)
  \/ \E t \in tabs : \E p \in DOMAIN ui[t].cards : ToggleResults(t, p)
  \/ \E t \in tabs : \E ok \in BOOLEAN : ResetClick(t, ok)

SpecRender == InitRender /\ [][NextRender]_vars

\* The page opened on a profile in which the text of the aggregate map, of
\* each per-poll choice, of the pick selections and of the consolidated
\* document either is missing or does not parse.
Unparsable(dflt) == [st |-> Corrupt, v |-> dflt]

InitCorrupt ==
  /\ tabs = {"t1"}
  /\ ls \in [votes : {Removed(EmptyMap), Unparsable(EmptyMap)},
             poll : [Polls -> {Absent, Corrupt}],
             picks : {Removed(EmptyMap), Unparsable(EmptyMap)},
             data : {Removed(defaultData), Unparsable(defaultData)},
             about : {Absent},
             rsvp : {Removed(NoRSVP)}]
  /\ mem = [t \in tabs |-> LoadMem(ls)]
  /\ ui = [t \in tabs |-> LoadUI(ls)]
  /\ last = Ran("load", "t1", "", "", TRUE, NoFile, "")

NextCorrupt ==
  \/ \E t \in tabs : Load(t)
  \/ \E t \in tabs : \E p \in Polls : \E o \in OptionsOf(p) : OptionClick(t, p, o)
  \/ \E t \in tabs : \E i \in Items : \E k \in {"yes", "no"} : TileAction(t, i, k)
  \/ \E t \in tabs : \E ok \in BOOLEAN : ResetClick(t, ok)
  \/ \E t \in tabs : ExportClick(t)

SpecCorrupt == InitCorrupt /\ [][NextCorrupt]_vars

\* Two page instances of one browser profile: they share localStorage, each
\* has its own closures and DOM, and their handlers interleave.
InitTwoTabs == InitWith({"t1", "t2"})

NextTwoTabs ==
  \/ \E t \in tabs : Load(t)
  \/ \E t \in tabs : \E p \in Polls : \E o \in OptionsOf(p) : OptionClick(t, p, o)
  \/ \E t \in tabs : \E ok \in BOOLEAN : ResetClick(t, ok)

SpecTwoTabs == InitTwoTabs /\ [][NextTwoTabs]_vars

\* ================================================================ claims
PersistedVotes == storage_get(ls.votes, EmptyMap)
TotalIsSum(votes, p) ==
  LET poll == getPollCounts(votes, p)
  IN poll.total = SumValues(poll.options)

\* C1: for every poll id, in every reachable state, total equals the sum of
\* the values of options, in the persisted aggregate map and in the
\* in-memory map of every page.
C1_TotalEqualsSum ==
  \A p \in Polls :
    /\ TotalIsSum(PersistedVotes, p)
    /\ \A t \in tabs : TotalIsSum(mem[t].votes, p)

\* C1 witness: a poll voted on, reset and voted on again, so that the
\* persisted and the in-memory entry both count two votes.
C1_Witness ==
  \E t \in tabs :
    /\ getPollCounts(PersistedVotes, "p1").total = 2
    /\ getPollCounts(mem[t].votes, "p1").total = 2
    /\ DOMAIN getPollCounts(mem[t].votes, "p1").options = {"A", "B"}

\* C2: a vote attempt on a poll that already has a recorded user vote
\* changes nothing: storage (the choice, the counts, the consolidated
\* document, every other key), the in-memory maps and the page are as
\* before, the attempt is not accepted and raises no alert.
C2_RevoteIsNoOp ==
  [][\A p \in Polls :
       (last'.op = "vote" /\ last'.id = p /\ getUserVote(ls, p) # NoVote)
         => /\ ls' = ls
            /\ mem' = mem
            /\ ui' = ui
            /\ ~last'.ok
            /\ last'.alert = ""
            /\ last'.file = NoFile]_vars

\* C2 witness: an ignored attempt for an option other than the recorded one.
C2_Witness ==
  /\ last.op = "vote"
  /\ ~last.ok
  /\ getUserVote(ls, last.id) \notin {NoVote, last.choice}

\* C3: per poll the recorded choice changes only from unvoted to the option
\* of an accepted vote on that poll, or from a recorded option to unvoted by
\* an accepted reset; a vote is accepted only on an unvoted poll.
C3_TwoStateMachine ==
  [][\A p \in Polls :
       /\ (ls'.poll[p] # ls.poll[p]) =>
            \/ /\ getUserVote(ls, p) = NoVote
               /\ last'.op = "vote" /\ last'.ok /\ last'.id = p
               /\ ls'.poll[p] = last'.choice
               /\ last'.choice \in OptionsOf(p)
            \/ /\ getUserVote(ls, p) # NoVote
               /\ last'.op = "reset" /\ last'.ok
               /\ ls'.poll[p] = Absent
       /\ (last'.op = "vote" /\ last'.ok /\ last'.id = p) =>
            /\ getUserVote(ls, p) = NoVote
            /\ ls'.poll[p] = last'.choice]_vars

\* C3 witness: a poll voted again after a reset (the in-memory entry counts
\* both votes), with the other poll still unvoted.
C3_Witness ==
  /\ last.op = "vote" /\ last.ok /\ last.id = "p1"
  /\ ls.poll["p1"] = "B"
  /\ ls.poll["p2"] = Absent
  /\ getPollCounts(mem[last.tab].votes, "p1").total = 2

\* The rendering of a page loaded on empty storage, surface by surface.
InitialRendering(t) ==
  /\ \A p \in Polls :
       /\ ~ui[t].cards[p].disabled
       /\ ui[t].cards[p].selected = {}
       /\ ui[t].cards[p].hidden
       /\ \A o \in OptionsOf(p) : ui[t].cards[p].bars[o] = 0
       /\ ui[t].cards[p].note = ""
  /\ \A i \in Items : ui[t].tiles[i] = ""
  /\ ui[t].summary.total = 0 /\ ui[t].summary.yes = 0 /\ ui[t].summary.no = 0
  /\ ui[t].votesCount = 0

JustReset == last.op = "reset" /\ last.ok

\* C4 as stated: right after resetAll every persisted voting key is absent
\* (aggregate map, every per-poll choice, pick selections, consolidated
\* document) and every surface of the page shows its initial rendering.
C4_ResetRemovesEveryKey ==
  JustReset =>
    /\ ls.votes.st = Absent
    /\ \A p \in Polls : ls.poll[p] = Absent
    /\ ls.picks.st = Absent
    /\ ls.data.st = Absent
    /\ InitialRendering(last.tab)

\* C4 amended: right after resetAll the aggregate poll map key holds the
\* empty map, the per-poll choice keys, the pick selections key and the
\* consolidated document key are absent, and every surface of the page
\* shows its initial rendering.
C4_ResetEmptiesStorage ==
  JustReset =>
    /\ ls.votes = Stored(EmptyMap)
    /\ \A p \in Polls : ls.poll[p] = Absent
    /\ ls.picks.st = Absent
    /\ ls.data.st = Absent
    /\ InitialRendering(last.tab)

\* C4 witness: a reset of a page that had votes on both polls and picks on
\* both tiles.
C4_Witness ==
  /\ JustReset
  /\ DOMAIN mem[last.tab].votes = Polls
  /\ DOMAIN mem[last.tab].saved = Items

StoredPicks == safeParse(ls.picks, EmptyMap)

\* C5: a pick of item i directly after a pick of the same item in the same
\* page leaves i stored with the later label and every other item as it
\* was; when the two labels are the same, the stored pick map and the
\* summary counts are those left by the first pick.
C5_PickIdempotentLastWins ==
  [][(last.op = "pick" /\ last'.op = "pick"
        /\ last'.tab = last.tab /\ last'.id = last.id)
       => /\ ls'.picks.st = Ok
          /\ DOMAIN ls'.picks.v = DOMAIN ls.picks.v
          /\ ls'.picks.v[last'.id] = last'.choice
          /\ \A j \in DOMAIN ls.picks.v \ {last.id} :
               ls'.picks.v[j] = ls.picks.v[j]
          /\ (last'.choice = last.choice =>
                /\ ls'.picks = ls.picks
                /\ ui'[last.tab].summary = ui[last.tab].summary)]_vars

\* C5 witness: a pick that leaves both items stored, with different labels.
C5_Witness ==
  /\ last.op = "pick" /\ last.id = "x1" /\ last.choice = "no"
  /\ ls.picks.st = Ok
  /\ DOMAIN ls.picks.v = Items
  /\ ls.picks.v["x2"] = "yes"

\* C6: with no reset, the pick summary of every page and the consolidated
\* document's programsSupported / programsOpposed are the numbers of items
\* whose stored label is affirmative / negative, and the summary total is
\* the number of items with a stored label.
C6_SummaryCountsFinalLabels ==
  /\ \A t \in tabs :
       /\ ui[t].summary.yes = CountOf(StoredPicks, "yes")
       /\ ui[t].summary.no = CountOf(StoredPicks, "no")
       /\ ui[t].summary.total = Cardinality(DOMAIN StoredPicks)
  /\ (StoredPicks # EmptyMap => ls.data.st = Ok)
  /\ ls.data.st = Ok =>
       /\ ls.data.v.summary.programsSupported = CountOf(StoredPicks, "yes")
       /\ ls.data.v.summary.programsOpposed = CountOf(StoredPicks, "no")

\* C6 witness: x1 stored as negative, x2 as affirmative, after a pick of x1.
C6_Witness ==
  /\ last.op = "pick" /\ last.id = "x1"
  /\ StoredPicks = [i \in Items |-> IF i = "x1" THEN "no" ELSE "yes"]
  /\ ui[last.tab].summary.no = 1
  /\ ls.data.v.summary.programsOpposed = 1

\* C7: in a fresh profile with no reset, once A is cast on the poll with
\* options A and B, whatever further attempts follow, the poll has total 1
\* and options {A: 1}, persisted and in memory, and is rendered A 100%,
\* B 0%.
C7_VoteTwiceCountsOnce ==
  ls.poll["p1"] = "A" =>
    /\ getPollCounts(PersistedVotes, "p1")
         = [total |-> 1, options |-> [o \in {"A"} |-> 1]]
    /\ \A t \in tabs :
         /\ getPollCounts(mem[t].votes, "p1")
              = [total |-> 1, options |-> [o \in {"A"} |-> 1]]
         /\ ui[t].cards["p1"].bars["A"] = 100
         /\ ui[t].cards["p1"].bars["B"] = 0

\* C7 witness: A recorded on p1 and the last handler an ignored attempt on
\* p1.
C7_Witness ==
  /\ ls.poll["p1"] = "A"
  /\ last.op = "vote" /\ last.id = "p1" /\ ~last.ok

\* The polls with a recorded user choice, each with its option.
RecordedChoices ==
  [p \in {q \in Polls : getUserVote(ls, q) # NoVote} |-> getUserVote(ls, p)]

\* C8: in every reachable state the consolidated document's poll-vote
\* entries are exactly the polls with a recorded user choice, each with
\* that option, and its pick entries are exactly the stored pick
\* selections, each with that label.
C8_DocumentIsDerived ==
  /\ getVotingData(ls).pollVotes = RecordedChoices
  /\ getVotingData(ls).programVotes = StoredPicks

\* The summary of a document, recomputed from its own entries.
SummaryOfOwnEntries(data) ==
  /\ data.summary.pollsCompleted = Cardinality(DOMAIN data.pollVotes)
  /\ data.summary.programsSupported
       = Cardinality({i \in DOMAIN data.programVotes : data.programVotes[i] = "yes"})
  /\ data.summary.programsOpposed
       = Cardinality({i \in DOMAIN data.programVotes : data.programVotes[i] = "no"})
  /\ data.summary.totalVotes
       = Cardinality(DOMAIN data.programVotes) + Cardinality(DOMAIN data.pollVotes)

\* C9: right after an accepted vote (p, o) or a pick (i, l) the consolidated
\* document is stored, holds the entry p -> o (i -> l), and its summary is
\* the one recomputed from its own entries.
C9_WritePersistsDocument ==
  /\ (last.op = "vote" /\ last.ok) =>
       /\ ls.data.st = Ok
       /\ last.id \in DOMAIN ls.data.v.pollVotes
       /\ ls.data.v.pollVotes[last.id] = last.choice
       /\ SummaryOfOwnEntries(ls.data.v)
  /\ last.op = "pick" =>
       /\ ls.data.st = Ok
       /\ last.id \in DOMAIN ls.data.v.programVotes
       /\ ls.data.v.programVotes[last.id] = last.choice
       /\ SummaryOfOwnEntries(ls.data.v)

\* C9 witness: an accepted vote stored beside two picks and another vote.
C9_Witness ==
  /\ last.op = "vote" /\ last.ok
  /\ ls.data.st = Ok
  /\ ls.data.v.summary.totalVotes = 4
  /\ ls.data.v.summary.pollsCompleted = 2

SomethingRecorded ==
  \/ \E p \in Polls : getUserVote(ls, p) # NoVote
  \/ StoredPicks # EmptyMap

\* C10: activating export leaves every persisted key unchanged, and when a
\* vote or a pick is recorded a file is produced whose content is the
\* stored consolidated document.
C10_ExportReadOnly ==
  [][last'.op = "export" =>
       /\ ls' = ls
       /\ SomethingRecorded =>
            /\ ls.data.st = Ok
            /\ last'.file = Stored(ls.data.v)
            /\ last'.ok]_vars

\* C10 witness: an export that produced a file holding poll votes, picks
\* and the voter profile.
C10_Witness ==
  /\ last.op = "export" /\ last.ok
  /\ last.file.st = Ok
  /\ last.file.v = ls.data.v
  /\ last.file.v.summary.pollsCompleted >= 1
  /\ last.file.v.summary.programsOpposed >= 1
  /\ last.file.v.voterProfile # NoProfile
  /\ ls.about # Absent

\* C11: an export activated while no poll vote and no pick is recorded
\* (fresh profile, right after a reset, or after about-you changes only)
\* tells the user there is nothing to export and produces no file.
C11_NothingToExport ==
  (last.op = "export" /\ ~SomethingRecorded) =>
    /\ last.alert = "nothing"
    /\ last.file = NoFile
    /\ ~last.ok

\* C11 witness: an export refused although the about-you form has stored a
\* profile in the consolidated document.
C11_Witness ==
  /\ last.op = "export" /\ last.alert = "nothing"
  /\ ~SomethingRecorded
  /\ ls.about # Absent
  /\ ls.data.st = Ok
  /\ ls.data.v.voterProfile # NoProfile

\* C12: for a poll whose total is 0 in the map a page renders from (never
\* voted, or absent from the aggregate map), every option of the card is
\* rendered at exactly 0%, also right after its results were opened.
C12_ZeroTotalRendersZero ==
  \A t \in tabs : \A p \in Polls :
    getPollCounts(mem[t].votes, p).total = 0 =>
      \A o \in OptionsOf(p) :
        /\ ui[t].cards[p].bars[o] = 0
        /\ renderResults(mem[t].votes, p)[o] = 0

\* C12 witness: the results of a poll absent from a non-empty aggregate map
\* were just opened and rendered.
C12_Witness ==
  /\ last.op = "toggle" /\ last.id = "p1"
  /\ ~ui[last.tab].cards["p1"].hidden
  /\ DOMAIN mem[last.tab].votes = {"p2"}
  /\ PersistedVotes = mem[last.tab].votes

\* C15: in a single page every poll with a recorded user choice has its
\* option buttons disabled, before and after every handler (votes, toggles,
\* picks, exports, reloads), and disabled buttons become enabled again only
\* through an accepted reset.
C15_VotedPollIsLocked ==
  [][\A t \in tabs : \A p \in Polls :
       /\ getUserVote(ls, p) # NoVote => ui[t].cards[p].disabled
       /\ getUserVote(ls', p) # NoVote => ui'[t].cards[p].disabled
       /\ (ui[t].cards[p].disabled /\ ~ui'[t].cards[p].disabled)
            => (last'.op = "reset" /\ last'.ok /\ last'.tab = t)]_vars

\* C15 witness: a page reloaded with a recorded choice on p1, its buttons
\* disabled again by the load.
C15_Witness ==
  /\ last.op = "load"
  /\ getUserVote(ls, "p1") = "B"
  /\ ui[last.tab].cards["p1"].disabled
  /\ ~ui[last.tab].cards["p2"].disabled

\* The aggregate entry and the bars of a poll holding one vote, for o.
OneVoteFor(poll, o) == poll = [total |-> 1, options |-> [x \in {o} |-> 1]]
BarsAllFor(bars, p, o) ==
  \A x \in OptionsOf(p) : bars[x] = IF x = o THEN 100 ELSE 0

\* C19: a vote accepted right after a reset, in the page that ran the reset
\* and was not reloaded, leaves the poll with total 1 and options {o: 1} in
\* the persisted map and in the page's map, rendered o 100% and every other
\* option 0%, whatever was voted before the reset.
C19_VoteAfterResetCountsFromZero ==
  [][(JustReset /\ last'.op = "vote" /\ last'.ok /\ last'.tab = last.tab)
       => /\ OneVoteFor(getPollCounts(storage_get(ls'.votes, EmptyMap), last'.id),
                        last'.choice)
          /\ OneVoteFor(getPollCounts(mem'[last'.tab].votes, last'.id),
                        last'.choice)
          /\ BarsAllFor(ui'[last'.tab].cards[last'.id].bars, last'.id,
                        last'.choice)]_vars

\* C20: a pick made right after a reset, in the page that ran the reset and
\* was not reloaded, leaves the persisted pick selections exactly
\* {x: label} and the summary total at 1, whatever was picked before.
C20_PickAfterResetStartsEmpty ==
  [][(JustReset /\ last'.op = "pick" /\ last'.tab = last.tab)
       => /\ ls'.picks = Stored([x \in {last'.id} |-> last'.choice])
          /\ ui'[last'.tab].summary.total = 1]_vars

\* C13: every option percentage a page shows is Math.round of
\* count / max(1, total) * 100 for the option's count and the poll's total
\* in the map the page renders from, that is the integer pct with
\* pct - 1/2 <= 100 * count / max(1, total) < pct + 1/2, and lies in 0..100;
\* each option is rounded on its own, so the percentages of a poll need not
\* add up to 100.
C13_PercentIsRounded ==
  \A t \in tabs : \A p \in DOMAIN ui[t].cards :
    ~ui[t].cards[p].hidden =>
      \A o \in OptionsOf(p) :
        LET poll == IF p \in DOMAIN mem[t].votes
                    THEN mem[t].votes[p]
                    ELSE [total |-> 0, options |-> EmptyMap]
            count == IF o \in DOMAIN poll.options THEN poll.options[o] ELSE 0
            n == IF poll.total >= 1 THEN poll.total ELSE 1
            pct == ui[t].cards[p].bars[o]
        IN /\ pct \in 0..100
           /\ 2 * n * pct <= 200 * count + n
           /\ 200 * count + n < 2 * n * (pct + 1)

\* C13 witness: three options with one vote each, rendered as 33%, 33%, 33%
\* when the results are opened again.
C13_Witness ==
  \E t \in tabs :
    /\ last.op = "toggle" /\ last.tab = t
    /\ ~ui[t].cards["p3"].hidden
    /\ "p3" \in DOMAIN mem[t].votes
    /\ mem[t].votes["p3"].total = 3
    /\ DOMAIN mem[t].votes["p3"].options = OptionsOf("p3")
    /\ \A o \in OptionsOf("p3") :
         /\ mem[t].votes["p3"].options[o] = 1
         /\ ui[t].cards["p3"].bars[o] = 33

\* The storage with every unparsable key taken away.
AsIfAbsent(store) ==
  [store EXCEPT
     !.votes = IF @.st = Corrupt THEN Removed(@.v) ELSE @,
     !.poll = [p \in DOMAIN @ |-> IF @[p] = Corrupt THEN Absent ELSE @[p]],
     !.picks = IF @.st = Corrupt THEN Removed(@.v) ELSE @,
     !.data = IF @.st = Corrupt THEN Removed(@.v) ELSE @]

\* Some handler of the page takes the storage from store to store2, with
\* the step's closures, DOM, alert and file.
HandlerRunsOn(store, store2) ==
  \/ \E t \in tabs : LoadOn(store, store2, t)
  \/ \E t \in tabs : \E p \in Polls : \E o \in OptionsOf(p) :
       OptionClickOn(store, store2, t, p, o)
  \/ \E t \in tabs : \E p \in Polls : ToggleResultsOn(store, store2, t, p)
  \/ \E t \in tabs : \E i \in Items : \E k \in {"yes", "no"} :
       TileActionOn(store, store2, t, i, k)
  \/ \E t \in tabs : \E ok \in BOOLEAN : ResetClickOn(store, store2, t, ok)
  \/ \E t \in tabs : \E d \in Profiles : AboutYouChangeOn(store, store2, t, d)
  \/ \E t \in tabs : ExportClickOn(store, store2, t)

\* C14: with unparsable text under the aggregate map, a per-poll choice,
\* the pick selections or the consolidated document, a loaded page holds
\* the closures and the DOM it would hold were those keys absent, and every
\* step (load, vote, pick, reset, export) is the step the
\* same handler takes were those keys absent: same closures, DOM, alert and
\* file, and the same storage but for unparsable keys it did not write.
C14_UnparsableIsAbsent ==
  [][/\ last.op = "load" =>
          /\ mem[last.tab] = LoadMem(AsIfAbsent(ls))
          /\ ui[last.tab] = LoadUI(AsIfAbsent(ls))
     /\ HandlerRunsOn(AsIfAbsent(ls), AsIfAbsent(ls'))]_vars

\* C14 witness: a vote accepted on a poll whose choice key held unparsable
\* text, leaving the choice stored while other keys are still unparsable.
C14_Witness ==
  /\ last.op = "vote" /\ last.ok /\ last.id = "p1"
  /\ ls.poll["p1"] = last.choice
  /\ ls.votes.st = Ok /\ ls.data.st = Ok
  /\ ls.picks.st = Corrupt
  /\ ls.poll["p2"] = Corrupt

\* Text made of blanks only, and text n being raw without its leading and
\* trailing blanks.
AllBlank(raw) == \A k \in 1..Len(raw) : raw[k] = " "
IsTrimmed(n, raw) ==
  /\ n = <<>> \/ (n[1] # " " /\ n[Len(n)] # " ")
  /\ \E i \in 0..Len(raw) :
       /\ i + Len(n) <= Len(raw)
       /\ SubSeq(raw, i + 1, i + Len(n)) = n
       /\ \A k \in (1..i) \cup ((i + Len(n) + 1)..Len(raw)) : raw[k] = " "

\* C16: a submission of the RSVP form whose name is empty after trimming
\* changes no stored key, leaves the modal open, prompts for the name and
\* puts the focus on the name field, every time it is repeated; with any
\* other name the record is stored with the name and the email trimmed and
\* the modal is closed.
C16_BlankNameIsBlocked ==
  [][\A t \in tabs :
       (last'.op = "rsvpSubmit" /\ last'.tab = t) =>
         IF AllBlank(ui[t].form.name)
         THEN /\ ls' = ls
              /\ ~ui'[t].modalHidden
              /\ last'.alert = "name"
              /\ ui'[t].focus = "rsvpName"
              /\ ~last'.ok
         ELSE /\ ls'.rsvp.st = Ok
              /\ IsTrimmed(ls'.rsvp.v.name, ui[t].form.name)
              /\ IsTrimmed(ls'.rsvp.v.email, ui[t].form.email)
              /\ ls'.rsvp.v.name # <<>>
              /\ ui'[t].modalHidden
              /\ last'.ok]_vars

\* C16 witness: a blocked submission of a blank name typed over a stored
\* RSVP, with the focus moved from the email field to the name field.
C16_Witness ==
  /\ last.op = "rsvpSubmit" /\ ~last.ok
  /\ ui[last.tab].form.name = <<" ">>
  /\ ui[last.tab].form.email = <<"e", " ">>
  /\ ls.rsvp = Stored([name |-> <<"a">>, email |-> <<"e">>])
  /\ ~ui[last.tab].modalHidden
  /\ ui[last.tab].focus = "rsvpName"

\* C17: a copy of a tile's SVG whose clipboard write fails, or that finds no
\* clipboard at all, triggers exactly one download, of that tile's file; a
\* copy whose write succeeds, and a copy still waiting for its write,
\* trigger none; no persisted key changes in any of these steps.
C17_CopyFallsBackToOneDownload ==
  [][\A t \in tabs :
       (last'.tab = t /\ last'.op \in {"copy", "clipboard"}) =>
         /\ ls' = ls
         /\ last'.alert = ""
         /\ IF last'.ok
            THEN /\ ui'[t].svg.downloads = ui[t].svg.downloads
                 /\ ui'[t].svg.lastFile = ui[t].svg.lastFile
            ELSE /\ ui'[t].svg.downloads = ui[t].svg.downloads + 1
                 /\ ui'[t].svg.lastFile = last'.id]_vars

\* C17 witness: a clipboard write for x2 just failed while picks are stored,
\* after an earlier download of x1; two files have been downloaded.
C17_Witness ==
  /\ last.op = "clipboard" /\ ~last.ok /\ last.id = "x2"
  /\ StoredPicks # EmptyMap
  /\ ui[last.tab].svg.downloads = 2
  /\ ui[last.tab].svg.lastFile = "x2"
  /\ ui[last.tab].svg.pending["x2"] = 0

AnimationStarted == \E t \in tabs : ui[t].counter.runs = 1
AnimationOver ==
  \A t \in tabs :
    /\ ui[t].counter.frames = 0
    /\ ui[t].counter.text.val = ui[t].counter.target

\* C18: the counter animation terminates.  Its duration is fixed when the
\* element becomes visible and lies between 700 and 1600 ms; the first frame
\* at or past the duration requests no further frame and no frame is
\* requested after it; the text then shown is exactly the target with the
\* suffix; the element is unobserved at its first intersection and animated
\* at most once; and once started the animation does come to that end.
C18_CounterAnimationEnds ==
  /\ [](\A t \in tabs :
          LET c == ui[t].counter
          IN /\ c.runs <= 1
             /\ c.runs = 1 => (~c.observed /\ c.duration \in 700..1600)
             /\ (c.runs = 1 /\ c.frames = 0) =>
                  c.text = [val |-> c.target, suffix |-> c.suffix])
  /\ [][\A t \in tabs :
          LET c == ui[t].counter
              d == ui'[t].counter
          IN /\ (last'.op = "tick" /\ d.elapsed >= d.duration) => d.frames = 0
             /\ (last'.op = "tick" /\ d.elapsed < d.duration) => d.frames = 1
             /\ (c.runs = 1 /\ c.frames = 0) => d.frames = 0
             /\ c.runs = 1 => d.duration = c.duration]_vars
  /\ AnimationStarted ~> AnimationOver

\* C18 witness: the animation towards 10000% has ended, 1600 ms long, on a
\* frame past the duration, and the element shows 10000%.
C18_Witness ==
  \E t \in tabs :
    /\ ui[t].counter.runs = 1 /\ ui[t].counter.frames = 0
    /\ ui[t].counter.duration = 1600
    /\ ui[t].counter.elapsed > 1600
    /\ ui[t].counter.text = [val |-> 10000, suffix |-> "%"]

\* C21: with two pages sharing storage, in every reachable state each poll
\* with a recorded user choice o has a persisted aggregate entry with
\* total >= 1 and options[o] >= 1 (so a vote on another poll in the other
\* page never erases an accepted vote from the aggregate map).
C21_RecordedChoiceIsCounted ==
  \A p \in Polls :
    getUserVote(ls, p) # NoVote =>
      /\ p \in DOMAIN PersistedVotes
      /\ PersistedVotes[p].total >= 1
      /\ getUserVote(ls, p) \in DOMAIN PersistedVotes[p].options
      /\ PersistedVotes[p].options[getUserVote(ls, p)] >= 1

\* C22: a click on the reset button whose confirmation is declined leaves
\* every persisted key, the closures and the whole page as they were and
\* hands out no alert and no file; the stored votes, choices, picks and
\* document are cleared by a reset click only when it is confirmed.
C22_DeclinedResetChangesNothing ==
  [][last'.op = "reset" =>
       /\ ~last'.ok => /\ ls' = ls
                       /\ ui' = ui
                       /\ mem' = mem
                       /\ last'.alert = ""
                       /\ last'.file = NoFile
       /\ (ls' # ls \/ ui' # ui) => /\ last'.ok
                                    /\ ls' = resetStorage(ls)]_vars

\* C22 witness: a declined reset on a page with both polls voted and locked,
\* both tiles picked and a profile stored, all still there.
C22_Witness ==
  /\ last.op = "reset" /\ ~last.ok
  /\ \A p \in Polls : getUserVote(ls, p) # NoVote /\ ui[last.tab].cards[p].disabled
  /\ DOMAIN StoredPicks = Items
  /\ ui[last.tab].summary.total = 2
  /\ ls.data.st = Ok
  /\ ls.about # Absent

\* Text q being text v with every capital letter lower-cased.
IsLowerCased(q, v) ==
  /\ Len(q) = Len(v)
  /\ \A k \in 1..Len(v) : q[k] = IF v[k] = "X" THEN "x" ELSE v[k]
SearchPending == \E t \in tabs : ui[t].filter.timers # <<>>
SearchSettled ==
  \A t \in tabs :
    /\ ui[t].filter.timers = <<>>
    /\ IsLowerCased(ui[t].filter.query, ui[t].filter.value)

\* C23: the search input is debounced.  At most one timer is pending and it
\* holds the value of the last input event; every input event replaces the
\* pending timer; the applied query changes only when that timer fires (or
\* the page is reloaded) and then is the lower-cased last input value, never
\* an earlier one; and a pending timer leads to the applied query being the
\* lower-cased last input value with no timer pending.
C23_SearchIsDebounced ==
  /\ [](\A t \in tabs :
          /\ Len(ui[t].filter.timers) <= 1
          /\ \A k \in 1..Len(ui[t].filter.timers) :
               ui[t].filter.timers[k] = ui[t].filter.value)
  /\ [][\A t \in tabs :
          /\ last'.op = "input" => /\ Len(ui'[t].filter.timers) = 1
                                   /\ ui'[t].filter.query = ui[t].filter.query
                                   /\ ui'[t].filter.shown = ui[t].filter.shown
          /\ ui'[t].filter.query # ui[t].filter.query =>
               /\ last'.op \in {"searchTimer", "load"}
               /\ IsLowerCased(ui'[t].filter.query, ui'[t].filter.value)]_vars
  /\ SearchPending ~> SearchSettled

\* C23 witness: the timer has fired and the applied query is the
\* lower-cased last input value, which hides tile x1.
C23_Witness ==
  /\ last.op = "searchTimer"
  /\ ui[last.tab].filter.value = <<"X", "2">>
  /\ ui[last.tab].filter.query = <<"x", "2">>
  /\ ui[last.tab].filter.timers = <<>>
  /\ ui[last.tab].filter.shown = {"x2"}
====
